---- MODULE Spec2Model ----
(***************************************************************************)
(* A model of app/models/card.py: the Card record, its four methods and    *)
(* the binary64 arithmetic its ELO formulas are evaluated in.              *)
(***************************************************************************)
EXTENDS Integers, Sequences, FiniteSets, TLC

\* e, with v evaluated first.  TLC evaluates an operator's argument where the
\* operator first uses it, nested inside the operator's own evaluation; taking
\* the steps of a long computation one after the other keeps that nesting flat.
After(v, e) == IF v = v THEN e ELSE e

Max(a, b) == IF a >= b THEN a ELSE b
Min(a, b) == IF a <= b THEN a ELSE b

(***************************************************************************)
(* Natural numbers of any size: little-endian sequences of limbs below     *)
(* Base with no leading zero limb, <<>> being 0.  TLC's own integers are   *)
(* 32 bits wide and cannot hold a 53-bit significand or its products.      *)
(***************************************************************************)
LimbBits == 15
Base == 2^LimbBits

RECURSIVE BNorm(_)
BNorm(a) ==
    IF a = <<>> THEN a
    ELSE IF a[Len(a)] = 0 THEN BNorm(SubSeq(a, 1, Len(a) - 1)) ELSE a

BLimb(a, i) == IF i <= Len(a) THEN a[i] ELSE 0

RECURSIVE BFromInt(_)
BFromInt(n) == IF n = 0 THEN <<>> ELSE <<n % Base>> \o BFromInt(n \div Base)

RECURSIVE BToIntAt(_, _)
BToIntAt(a, i) == IF i > Len(a) THEN 0 ELSE a[i] + Base * BToIntAt(a, i + 1)
BToInt(a) == BToIntAt(a, 1)

RECURSIVE BAddC(_, _, _, _)
BAddC(a, b, i, c) ==
    IF i > Max(Len(a), Len(b))
    THEN (IF c = 0 THEN <<>> ELSE <<c>>)
    ELSE LET s == BLimb(a, i) + BLimb(b, i) + c
         IN  <<s % Base>> \o BAddC(a, b, i + 1, s \div Base)
BAdd(a, b) == BAddC(a, b, 1, 0)

\* a - b for a >= b
RECURSIVE BSubC(_, _, _, _)
BSubC(a, b, i, c) ==
    IF i > Len(a) THEN <<>>
    ELSE LET s == a[i] - BLimb(b, i) - c
         IN  <<s % Base>> \o BSubC(a, b, i + 1, IF s < 0 THEN 1 ELSE 0)
BSub(a, b) == BNorm(BSubC(a, b, 1, 0))

RECURSIVE BCmpAt(_, _, _)
BCmpAt(a, b, i) ==
    IF i = 0 THEN 0
    ELSE IF a[i] > b[i] THEN 1
    ELSE IF a[i] < b[i] THEN -1
    ELSE BCmpAt(a, b, i - 1)
BCmp(a, b) ==
    IF Len(a) > Len(b) THEN 1
    ELSE IF Len(a) < Len(b) THEN -1
    ELSE BCmpAt(a, b, Len(a))

\* a * s for 0 <= s < Base
RECURSIVE BMulSmallC(_, _, _, _)
BMulSmallC(a, s, i, c) ==
    IF i > Len(a)
    THEN (IF c = 0 THEN <<>> ELSE <<c>>)
    ELSE LET p == a[i] * s + c
         IN  <<p % Base>> \o BMulSmallC(a, s, i + 1, p \div Base)
BMulSmall(a, s) == IF s = 0 THEN <<>> ELSE BMulSmallC(a, s, 1, 0)

RECURSIVE BMulAt(_, _, _)
BMulAt(a, b, j) ==
    IF j > Len(b) THEN <<>>
    ELSE LET rest == BMulAt(a, b, j + 1)
         IN  BAdd(BMulSmall(a, b[j]), IF rest = <<>> THEN <<>> ELSE <<0>> \o rest)
BMul(a, b) == IF a = <<>> THEN <<>> ELSE BMulAt(a, b, 1)

\* a * 2^n
BShl(a, n) ==
    IF a = <<>> THEN <<>>
    ELSE [i \in 1..(n \div LimbBits) |-> 0] \o BMulSmall(a, 2^(n % LimbBits))

\* floor(a / d) for 0 < d < Base, limbs i down to 1, r the running remainder
RECURSIVE BDivSmallAt(_, _, _, _)
BDivSmallAt(a, d, i, r) ==
    IF i = 0 THEN <<>>
    ELSE LET cur == r * Base + a[i]
         IN  BDivSmallAt(a, d, i - 1, cur % d) \o <<cur \div d>>
\* floor(a / 2^n)
BShr(a, n) ==
    LET q == n \div LimbBits
        hi == IF q >= Len(a) THEN <<>> ELSE SubSeq(a, q + 1, Len(a))
    IN  BNorm(BDivSmallAt(hi, 2^(n % LimbBits), Len(hi), 0))

\* the number of bits of a limb
SmallBitLen(n) == CHOOSE k \in 0..LimbBits : n < 2^k /\ (k = 0 \/ n >= 2^(k - 1))
BBitLen(a) == IF a = <<>> THEN 0 ELSE LimbBits * (Len(a) - 1) + SmallBitLen(a[Len(a)])

\* bit i (from 0) of a
BBit(a, i) == (BLimb(a, i \div LimbBits + 1) \div 2^(i % LimbBits)) % 2

\* the quotient digit floor(r / d) < Base, counted down from the estimate e >= it
RECURSIVE BDigit(_, _, _)
BDigit(d, r, e) == IF BCmp(BMulSmall(d, e), r) > 0 THEN BDigit(d, r, e - 1) ELSE e

\* one step of schoolbook long division in base Base: limb i of n enters the
\* remainder st.r.  The top limb of d is at least Base / 2, so the estimate
\* from the leading limbs is at most 2 above the digit
BDivLimb(n, d, i, st) ==
    LET r2  == BNorm(<<n[i]>> \o st.r)
        top == BLimb(r2, Len(d)) + Base * BLimb(r2, Len(d) + 1)
        qd  == BDigit(d, r2, Min(Base - 1, top \div d[Len(d)]))
    IN  [q |-> <<qd>> \o st.q, r |-> BSub(r2, BMulSmall(d, qd))]

\* long division over limbs hi down to lo of n
RECURSIVE BDivLimbs(_, _, _, _, _)
BDivLimbs(n, d, hi, lo, st) ==
    IF hi < lo THEN st
    ELSE IF hi = lo THEN BDivLimb(n, d, hi, st)
    ELSE LET mid == (hi + lo) \div 2
             u   == BDivLimbs(n, d, hi, mid + 1, st)
         IN  After(u, BDivLimbs(n, d, mid, lo, u))

\* quotient q and remainder r of n / d, d > 0
BDivMod(n, d) ==
    LET sh == LimbBits - SmallBitLen(d[Len(d)])
        N  == BShl(n, sh)
        st == BDivLimbs(N, BShl(d, sh), Len(N), 1, [q |-> <<>>, r |-> <<>>])
    IN  [q |-> BNorm(st.q), r |-> BShr(st.r, sh)]

\* the number of trailing zero bits of a limb n > 0
SmallTrailingZeros(n) == CHOOSE k \in 0..(LimbBits - 1) : n % 2^(k + 1) = 2^k

\* 10^k
RECURSIVE BPow10(_)
BPow10(k) ==
    IF k = 0 THEN <<1>>
    ELSE IF k % 2 = 1 THEN BMulSmall(BPow10(k - 1), 10)
    ELSE LET h == BPow10(k \div 2) IN BMul(h, h)

(***************************************************************************)
(* Python floats: IEEE 754 binary64 with round-to-nearest-even.  A value   *)
(* is sgn * man * 2^exp, kept canonical (man odd, or the one zero), so     *)
(* equal numbers are equal records.  Every operation computes the exact    *)
(* result and rounds it to Precision significant bits.  Exponent overflow, *)
(* subnormals, NaN and the sign of zero are outside the modelled range.    *)
(***************************************************************************)
Precision == 53

FZero == [sgn |-> 1, man |-> <<>>, exp |-> 0]

RECURSIVE FCanon(_, _, _)
FCanon(sgn, M, E) ==
    IF M = <<>> THEN FZero
    ELSE IF M[1] = 0 THEN FCanon(sgn, Tail(M), E + LimbBits)
    ELSE LET tz == SmallTrailingZeros(M[1])
         IN  [sgn |-> sgn, man |-> BShr(M, tz), exp |-> E + tz]

\* sgn * (M + f) * 2^E rounded, where 0 < f < 1 if sticky and f = 0 if not
FRound(sgn, M, E, sticky) ==
    LET L == BBitLen(M)
    IN  IF L <= Precision THEN FCanon(sgn, M, E)
        ELSE LET d    == L - Precision
                 Q    == BShr(M, d)
                 rem  == BSub(M, BShl(Q, d))
                 c    == BCmp(rem, BShl(<<1>>, d - 1))
                 up   == \/ c > 0
                         \/ c = 0 /\ (sticky \/ BBit(Q, 0) = 1)
             IN  FCanon(sgn, IF up THEN BAdd(Q, <<1>>) ELSE Q, E + d)

FFromInt(n) == IF n >= 0 THEN FCanon(1, BFromInt(n), 0) ELSE FCanon(-1, BFromInt(-n), 0)

FNeg(x) == IF x.man = <<>> THEN x ELSE [x EXCEPT !.sgn = -x.sgn]

\* exact sum and product of two values (not rounded)
DAdd(x, y) ==
    LET e == Min(x.exp, y.exp)
        A == BShl(x.man, x.exp - e)
        B == BShl(y.man, y.exp - e)
        c == BCmp(A, B)
    IN  IF x.man = <<>> THEN y
        ELSE IF y.man = <<>> THEN x
        ELSE IF x.sgn = y.sgn THEN FCanon(x.sgn, BAdd(A, B), e)
        ELSE IF c = 0 THEN FZero
        ELSE IF c > 0 THEN FCanon(x.sgn, BSub(A, B), e)
        ELSE FCanon(y.sgn, BSub(B, A), e)
DSub(x, y) == DAdd(x, FNeg(y))
DMul(x, y) == FCanon(x.sgn * y.sgn, BMul(x.man, y.man), x.exp + y.exp)

FRnd(x) == FRound(x.sgn, x.man, x.exp, FALSE)

\* x + y, x - y, x * y as binary64 computes them
FAdd(x, y) == FRnd(DAdd(x, y))
FSub(x, y) == FRnd(DSub(x, y))
FMul(x, y) == FRnd(DMul(x, y))

\* sgn * (N / D) * 2^E rounded, for naturals N and D > 0
FQuot(sgn, N, D, E) ==
    LET s  == Max(0, Precision + 2 + BBitLen(D) - BBitLen(N))
        qr == BDivMod(BShl(N, s), D)
    IN  IF N = <<>> THEN FZero
        ELSE IF D = <<1>> THEN FRound(sgn, N, E, FALSE)
        ELSE FRound(sgn, qr.q, E - s, qr.r # <<>>)

FDiv(x, y) == FQuot(x.sgn * y.sgn, x.man, y.man, x.exp - y.exp)

\* -1, 0, 1 as x is below, equal to or above y
FCmp(x, y) ==
    LET d == DSub(x, y) IN IF d.man = <<>> THEN 0 ELSE d.sgn
FLt(x, y) == FCmp(x, y) < 0
FLe(x, y) == FCmp(x, y) <= 0
FMin(x, y) == IF FLt(y, x) THEN y ELSE x
FAbs(x) == [x EXCEPT !.sgn = 1]

FIsIntegral(x) == x.exp >= 0
FToInt(x) == x.sgn * BToInt(BShl(x.man, x.exp))

\* 10.0 ** x at an integral x: the correctly rounded power
FPow10(x) ==
    LET k == FToInt(x)
    IN  IF k >= 0 THEN FRound(1, BPow10(k), 0, FALSE)
        ELSE FQuot(1, <<1>>, BPow10(-k), 0)

(***************************************************************************)
(* The Card record and its methods.                                        *)
(***************************************************************************)
DefaultElo == 1500
DefaultK == 32
EloScale == 400
ConfidenceFull == 100

FOne == FFromInt(1)

\* Optional[datetime]: None, or one timestamp
None == <<>>
Some(t) == <<t>>

CardIds == {"A", "B"}
Other(c) == IF c = "A" THEN "B" ELSE "A"

\* Card(id=..., title=..., elo_rating=..., elo_k_factor=...) at time t
NewCard(id, title, t, rating, k) ==
    [id |-> id, title |-> title, created_at |-> t, updated_at |-> t,
     likes_count |-> 0, dislikes_count |-> 0, total_interactions |-> 0,
     last_interaction_at |-> None,
     elo_rating |-> rating, elo_k_factor |-> k, confidence_score |-> FZero]

\* variants of update_interaction_counts with one statement wrong: the total
\* not counted, both counters counted, the interaction time not stored
update_interaction_counts_NoTotal(self, is_like, t1, t2) ==
    [self EXCEPT !.likes_count = IF is_like THEN @ + 1 ELSE @,
                 !.dislikes_count = IF is_like THEN @ ELSE @ + 1,
                 !.last_interaction_at = Some(t1),
                 !.updated_at = t2]
update_interaction_counts_BothCounters(self, is_like, t1, t2) ==
    [self EXCEPT !.likes_count = @ + 1,
                 !.dislikes_count = @ + 1,
                 !.total_interactions = @ + 1,
                 !.last_interaction_at = Some(t1),
                 !.updated_at = t2]
update_interaction_counts_NoTimestamp(self, is_like, t1, t2) ==
    [self EXCEPT !.likes_count = IF is_like THEN @ + 1 ELSE @,
                 !.dislikes_count = IF is_like THEN @ ELSE @ + 1,
                 !.total_interactions = @ + 1,
                 !.updated_at = t2]

\* the card after self.update_interaction_counts(is_like); t1 and t2 are what
\* the two datetime.utcnow() calls return
update_interaction_counts(self, is_like, t1, t2) ==
    [self EXCEPT !.likes_count = IF is_like THEN @ + 1 ELSE @,
                 !.dislikes_count = IF is_like THEN @ ELSE @ + 1,
                 !.total_interactions = @ + 1,
                 !.last_interaction_at = Some(t1),
                 !.updated_at = t2]

\* (opponent_rating - self.elo_rating) / 400.0
RatingGap(self, opponent_rating) ==
    FDiv(FSub(opponent_rating, self.elo_rating), FFromInt(EloScale))

\* a variant of calculate_win_probability without the "1.0 +"
calculate_win_probability_NoOne(self, opponent_rating) ==
    FDiv(FOne, FPow10(RatingGap(self, opponent_rating)))

\* self.calculate_win_probability(opponent_rating)
calculate_win_probability(self, opponent_rating) ==
    FDiv(FOne, FAdd(FOne, FPow10(RatingGap(self, opponent_rating))))

\* min(1.0, self.total_interactions / 100.0)
Confidence(self) ==
    FMin(FOne, FDiv(FFromInt(self.total_interactions), FFromInt(ConfidenceFull)))

\* variants of update_elo_rating with one statement wrong: the actual score
\* always 1.0, the change subtracted, the match counted as an interaction
update_elo_rating_AlwaysWon(self, opponent_rating, won, t) ==
    LET expected_score == calculate_win_probability(self, opponent_rating)
    IN  [self EXCEPT !.elo_rating =
                         FAdd(@, FMul(self.elo_k_factor, FSub(FOne, expected_score))),
                     !.confidence_score = Confidence(self),
                     !.updated_at = t]
update_elo_rating_Subtracts(self, opponent_rating, won, t) ==
    LET expected_score == calculate_win_probability(self, opponent_rating)
        actual_score   == IF won THEN FOne ELSE FZero
    IN  [self EXCEPT !.elo_rating =
                         FSub(@, FMul(self.elo_k_factor,
                                      FSub(actual_score, expected_score))),
                     !.confidence_score = Confidence(self),
                     !.updated_at = t]
update_elo_rating_CountsInteraction(self, opponent_rating, won, t) ==
    LET expected_score == calculate_win_probability(self, opponent_rating)
        actual_score   == IF won THEN FOne ELSE FZero
    IN  [self EXCEPT !.elo_rating =
                         FAdd(@, FMul(self.elo_k_factor,
                                      FSub(actual_score, expected_score))),
                     !.total_interactions = @ + 1,
                     !.confidence_score = Confidence(self),
                     !.updated_at = t]

\* the card after self.update_elo_rating(opponent_rating, won) at time t
update_elo_rating(self, opponent_rating, won, t) ==
    LET expected_score == calculate_win_probability(self, opponent_rating)
        actual_score   == IF won THEN FOne ELSE FZero
    IN  [self EXCEPT !.elo_rating =
                         FAdd(@, FMul(self.elo_k_factor,
                                      FSub(actual_score, expected_score))),
                     !.confidence_score = Confidence(self),
                     !.updated_at = t]

\* a variant of get_ranking_score that adds where the code multiplies
get_ranking_score_Sum(self) == FAdd(self.elo_rating, self.confidence_score)

\* self.get_ranking_score()
get_ranking_score(self) == FMul(self.elo_rating, self.confidence_score)

(***************************************************************************)
(* The state: two cards, the clock datetime.utcnow() reads, the last call  *)
(* completed (with the cards as they were before it) and, per card, how    *)
(* many calls of each mutating method have completed.                      *)
(***************************************************************************)
VARIABLES cards, now, last, hist, lim, threads

vars == <<cards, now, last, hist, lim, threads>>

MaxOps == 3
MaxGap == 1
MaxClock == 1
WideOps == 1
WideGap == 16

\* 10.0 ** x is modelled at integral x only: a call is taken when the
\* opponent's rating is a whole number of EloScale steps from the card's own
OnGrid(self, opponent_rating) == FIsIntegral(RatingGap(self, opponent_rating))

\* the ratings a caller passes: the other card's current rating, its rating
\* before the last call, or a rating equal to the card's own
OpponentRatings(c) ==
    { r \in {cards[Other(c)].elo_rating, last.pre[Other(c)].elo_rating,
             cards[c].elo_rating} :
        OnGrid(cards[c], r) }

Call(op, id, is_like, opp, won, result) ==
    [op |-> op, id |-> id, is_like |-> is_like, opponent_rating |-> opp,
     won |-> won, result |-> result, pre |-> cards, at |-> now]

Mutations == hist["A"].records + hist["A"].updates + hist["B"].records + hist["B"].updates

CallUpdateInteractionCounts(c, is_like) ==
    /\ Mutations < lim.ops
    /\ \E t2 \in now..Min(now + 1, MaxClock) :
         /\ cards' = [cards EXCEPT ![c] = update_interaction_counts(@, is_like, now, t2)]
         /\ now' = t2
    /\ last' = Call("update_interaction_counts", c, is_like, FZero, FALSE, FZero)
    /\ hist' = [hist EXCEPT ![c].records = @ + 1,
                            ![c].likes = IF is_like THEN @ + 1 ELSE @]
    /\ UNCHANGED <<lim, threads>>

CallCalculateWinProbability(c, opp) ==
    /\ last' = Call("calculate_win_probability", c, FALSE, opp, FALSE,
                    calculate_win_probability(cards[c], opp))
    /\ UNCHANGED <<cards, now, hist, lim, threads>>

CallUpdateEloRating(c, opp, won) ==
    /\ Mutations < lim.ops
    /\ cards' = [cards EXCEPT ![c] = update_elo_rating(@, opp, won, now)]
    /\ last' = Call("update_elo_rating", c, FALSE, opp, won, FZero)
    /\ hist' = [hist EXCEPT ![c].updates = @ + 1]
    /\ UNCHANGED <<now, lim, threads>>

CallGetRankingScore(c) ==
    /\ last' = Call("get_ranking_score", c, FALSE, FZero, FALSE,
                    get_ranking_score(cards[c]))
    /\ UNCHANGED <<cards, now, hist, lim, threads>>

\* time passes between calls
Tick ==
    /\ now < MaxClock
    /\ now' = now + 1
    /\ UNCHANGED <<cards, last, hist, lim, threads>>

Next ==
    \/ \E c \in CardIds, is_like \in BOOLEAN : CallUpdateInteractionCounts(c, is_like)
    \/ \E c \in CardIds : \E opp \in OpponentRatings(c) : CallCalculateWinProbability(c, opp)
    \/ \E c \in CardIds : \E opp \in OpponentRatings(c), won \in BOOLEAN :
         CallUpdateEloRating(c, opp, won)
    \/ \E c \in CardIds : CallGetRankingScore(c)
    \/ Tick

NoThreads == <<>>

\* card A at the default rating and card B at gap * EloScale above it, both
\* with K-factor k, just constructed
Constructed(gap, k) ==
    [c \in CardIds |->
       NewCard(c, "title", 0,
               FFromInt(IF c = "A" THEN DefaultElo ELSE DefaultElo + EloScale * gap),
               FFromInt(k))]

InitWith(gaps, ks, ops) ==
    /\ \E g \in gaps, k \in ks : cards = Constructed(g, k)
    /\ now = 0
    /\ last = [op |-> "Card", id |-> "B", is_like |-> FALSE, opponent_rating |-> FZero,
               won |-> FALSE, result |-> FZero, pre |-> cards, at |-> 0]
    /\ hist = [c \in CardIds |-> [records |-> 0, likes |-> 0, updates |-> 0]]
    /\ lim = [ops |-> ops, serialize |-> FALSE]
    /\ threads = NoThreads

\* two cards built with the default K-factor, B's rating default or overridden
Init == InitWith(0..MaxGap, {DefaultK}, MaxOps)

Spec == Init /\ [][Next]_vars

\* few calls on cards built any distance apart, with any configured K-factor
InitWide == InitWith((-WideGap)..WideGap, {DefaultK, 1, 0}, WideOps)

SpecWide == InitWide /\ [][Next]_vars
(***************************************************************************)
(* Threads calling the two mutating methods of card A, one statement's     *)
(* read or write at a time.  lim.serialize says whether the callers hold a *)
(* per-card lock around each call.                                         *)
(***************************************************************************)
MaxThreads == 2

Shared == "A"
ThreadIds == 1..MaxThreads

Idle == [pc |-> "idle", op |-> "none", is_like |-> FALSE, opponent_rating |-> FZero,
         won |-> FALSE, expected_score |-> FZero, n |-> 0, r |-> FZero,
         seen |-> 0, stale |-> FALSE]

InCall(t) == threads[t].pc \notin {"idle", "done"}

\* with a per-card lock a call starts only when no other call is in progress
MayEnter(t) == lim.serialize => \A u \in ThreadIds : ~InCall(u)

At(t, op, pc) == threads[t].op = op /\ threads[t].pc = pc

Step(t, pc) == [threads EXCEPT ![t].pc = pc]

\* update_interaction_counts(is_like) is entered; the counter's value is read
EnterUpdateInteractionCounts(t, is_like) ==
    /\ threads[t].pc = "idle"
    /\ MayEnter(t)
    /\ threads' = [threads EXCEPT ![t] =
                     [@ EXCEPT !.pc = "write_count", !.op = "update_interaction_counts",
                               !.is_like = is_like,
                               !.n = IF is_like THEN cards[Shared].likes_count
                                    ELSE cards[Shared].dislikes_count]]
    /\ UNCHANGED <<cards, now, last, hist, lim>>

\* ... and stored back, one higher
WriteCount(t) ==
    /\ At(t, "update_interaction_counts", "write_count")
    /\ cards' = IF threads[t].is_like
                THEN [cards EXCEPT ![Shared].likes_count = threads[t].n + 1]
                ELSE [cards EXCEPT ![Shared].dislikes_count = threads[t].n + 1]
    /\ threads' = Step(t, "read_total")
    /\ UNCHANGED <<now, last, hist, lim>>

\* self.total_interactions += 1: the read
ReadTotal(t) ==
    /\ At(t, "update_interaction_counts", "read_total")
    /\ threads' = [threads EXCEPT ![t] =
                     [@ EXCEPT !.pc = "write_total", !.n = cards[Shared].total_interactions]]
    /\ UNCHANGED <<cards, now, last, hist, lim>>

\* a variant of the write that stores the value read, not one more
WriteTotal_NoIncrement(t) ==
    /\ At(t, "update_interaction_counts", "write_total")
    /\ cards' = [cards EXCEPT ![Shared].total_interactions = threads[t].n]
    /\ threads' = Step(t, "set_last_interaction_at")
    /\ UNCHANGED <<now, last, hist, lim>>

\* self.total_interactions += 1: the write
WriteTotal(t) ==
    /\ At(t, "update_interaction_counts", "write_total")
    /\ cards' = [cards EXCEPT ![Shared].total_interactions = threads[t].n + 1]
    /\ threads' = Step(t, "set_last_interaction_at")
    /\ UNCHANGED <<now, last, hist, lim>>

SetLastInteractionAt(t) ==
    /\ At(t, "update_interaction_counts", "set_last_interaction_at")
    /\ cards' = [cards EXCEPT ![Shared].last_interaction_at = Some(now)]
    /\ threads' = Step(t, "set_updated_at")
    /\ UNCHANGED <<now, last, hist, lim>>

\* the last statement of update_interaction_counts; the call returns
ReturnUpdateInteractionCounts(t) ==
    /\ At(t, "update_interaction_counts", "set_updated_at")
    /\ cards' = [cards EXCEPT ![Shared].updated_at = now]
    /\ threads' = Step(t, "done")
    /\ hist' = [hist EXCEPT ![Shared].records = @ + 1,
                            ![Shared].likes = IF threads[t].is_like THEN @ + 1 ELSE @]
    /\ UNCHANGED <<now, last, lim>>

\* update_elo_rating(opponent_rating, won) is entered; expected_score is
\* computed from the rating the card has now
EnterUpdateEloRating(t, opp, won) ==
    /\ threads[t].pc = "idle"
    /\ MayEnter(t)
    /\ threads' = [threads EXCEPT ![t] =
                     [@ EXCEPT !.pc = "read_rating", !.op = "update_elo_rating",
                               !.opponent_rating = opp, !.won = won,
                               !.expected_score =
                                   calculate_win_probability(cards[Shared], opp)]]
    /\ UNCHANGED <<cards, now, last, hist, lim>>

\* the calls that have stored a rating
Wrote(t) == threads[t].op = "update_elo_rating"
            /\ threads[t].pc \in {"read_total", "write_confidence", "set_updated_at", "done"}
RatingWrites == Cardinality({u \in ThreadIds : Wrote(u)})

\* self.elo_rating += ...: the read; seen notes how many stores preceded it
ReadRating(t) ==
    /\ At(t, "update_elo_rating", "read_rating")
    /\ threads' = [threads EXCEPT ![t] =
                     [@ EXCEPT !.pc = "write_rating", !.r = cards[Shared].elo_rating,
                               !.seen = RatingWrites]]
    /\ UNCHANGED <<cards, now, last, hist, lim>>

\* the rating a thread stores, from the rating it read
NewRating(t) ==
    FAdd(threads[t].r,
         FMul(cards[Shared].elo_k_factor,
              FSub(IF threads[t].won THEN FOne ELSE FZero, threads[t].expected_score)))

\* self.elo_rating += ...: the write; stale notes that another call stored a
\* rating since the read, which this store replaces
WriteRating(t) ==
    /\ At(t, "update_elo_rating", "write_rating")
    /\ cards' = [cards EXCEPT ![Shared].elo_rating = NewRating(t)]
    /\ threads' = [threads EXCEPT ![t] =
                     [@ EXCEPT !.pc = "read_total",
                               !.stale = (RatingWrites # threads[t].seen)]]
    /\ UNCHANGED <<now, last, hist, lim>>

\* self.confidence_score = min(1.0, self.total_interactions / 100.0): the read
ReadTotalForConfidence(t) ==
    /\ At(t, "update_elo_rating", "read_total")
    /\ threads' = [threads EXCEPT ![t] =
                     [@ EXCEPT !.pc = "write_confidence",
                               !.n = cards[Shared].total_interactions]]
    /\ UNCHANGED <<cards, now, last, hist, lim>>

\* ... and the write
WriteConfidence(t) ==
    /\ At(t, "update_elo_rating", "write_confidence")
    /\ cards' = [cards EXCEPT ![Shared].confidence_score =
                     Confidence([total_interactions |-> threads[t].n])]
    /\ threads' = Step(t, "set_updated_at")
    /\ UNCHANGED <<now, last, hist, lim>>

\* the last statement of update_elo_rating; the call returns
ReturnUpdateEloRating(t) ==
    /\ At(t, "update_elo_rating", "set_updated_at")
    /\ cards' = [cards EXCEPT ![Shared].updated_at = now]
    /\ threads' = Step(t, "done")
    /\ hist' = [hist EXCEPT ![Shared].updates = @ + 1]
    /\ UNCHANGED <<now, last, lim>>

NextThreads ==
    \/ \E t \in ThreadIds, is_like \in BOOLEAN : EnterUpdateInteractionCounts(t, is_like)
    \/ \E t \in ThreadIds : WriteCount(t)
    \/ \E t \in ThreadIds : ReadTotal(t)
    \/ \E t \in ThreadIds : WriteTotal(t)
    \/ \E t \in ThreadIds : SetLastInteractionAt(t)
    \/ \E t \in ThreadIds : ReturnUpdateInteractionCounts(t)
    \/ \E t \in ThreadIds : \E opp \in OpponentRatings(Shared), won \in BOOLEAN :
         EnterUpdateEloRating(t, opp, won)
    \/ \E t \in ThreadIds : ReadRating(t)
    \/ \E t \in ThreadIds : WriteRating(t)
    \/ \E t \in ThreadIds : ReadTotalForConfidence(t)
    \/ \E t \in ThreadIds : WriteConfidence(t)
    \/ \E t \in ThreadIds : ReturnUpdateEloRating(t)
    \/ Tick

\* two default cards; the callers either serialize their calls or do not
InitThreads ==
    /\ cards = Constructed(0, DefaultK)
    /\ now = 0
    /\ last = [op |-> "Card", id |-> "B", is_like |-> FALSE, opponent_rating |-> FZero,
               won |-> FALSE, result |-> FZero, pre |-> cards, at |-> 0]
    /\ hist = [c \in CardIds |-> [records |-> 0, likes |-> 0, updates |-> 0]]
    /\ \E serialize \in BOOLEAN : lim = [ops |-> MaxThreads, serialize |-> serialize]
    /\ threads = [t \in ThreadIds |-> Idle]

SpecThreads == InitThreads /\ [][NextThreads]_vars
(***************************************************************************)
(* The properties.  A property of a call is stated of the state the call   *)
(* leaves: last holds the call, its arguments, its result and the cards as *)
(* they were before it.                                                    *)
(***************************************************************************)
Did(op) == last.op = op
Self == cards[last.id]
Before == last.pre[last.id]
Opponent == Other(last.id)

FTwoTo(e) == [sgn |-> 1, man |-> <<1>>, exp |-> e]
FWithin(x, y, tol) == FLe(FAbs(DSub(x, y)), tol)
FBetween(lo, x, hi) == FLt(lo, x) /\ FLt(x, hi)

\* C1: in every reachable state confidence_score equals
\* min(1.0, total_interactions / 100.0).  The code breaks it: the state after
\* one update_interaction_counts call has total_interactions = 1 and
\* confidence_score 0.0.
C1_ConfidenceTracksTotal ==
    \A c \in CardIds : cards[c].confidence_score = Confidence(cards[c])

\* C2: after any sequence of calls, total_interactions is the number of
\* update_interaction_counts calls completed on the card, likes_count the
\* number of them with is_like true, and likes_count + dislikes_count the
\* number of them.
C2_CountersCountCalls ==
    \A c \in CardIds :
        /\ cards[c].total_interactions = hist[c].records
        /\ cards[c].likes_count = hist[c].likes
        /\ cards[c].likes_count + cards[c].dislikes_count = hist[c].records

C2_Witness ==
    \E c \in CardIds :
        /\ hist[c].records = 2
        /\ hist[c].likes = 1
        /\ hist[c].updates = 1
        /\ cards[c].total_interactions = 2

\* C3 as stated: whatever the card and the opponent's rating, unless the
\* expected score equals the actual score, update_elo_rating with won true
\* leaves elo_rating strictly greater, with won false strictly smaller, and
\* the change is elo_k_factor * |actual - expected| in size.
C3_AsStated ==
    Did("update_elo_rating") =>
        LET expected == calculate_win_probability(Before, last.opponent_rating)
            actual   == IF last.won THEN FOne ELSE FZero
        IN  \/ expected = actual
            \/ /\ last.won => FLt(Before.elo_rating, Self.elo_rating)
               /\ ~last.won => FLt(Self.elo_rating, Before.elo_rating)
               /\ FAbs(FSub(Self.elo_rating, Before.elo_rating))
                    = FMul(Before.elo_k_factor, FAbs(FSub(actual, expected)))

\* a K-factor from 1 to 1000, a rating within 10000 of zero and an opponent
\* within 4000 points of it
C3_Ordinary ==
    /\ FLe(FOne, Before.elo_k_factor)
    /\ FLe(Before.elo_k_factor, FFromInt(1000))
    /\ FLe(FAbs(Before.elo_rating), FFromInt(10000))
    /\ FLe(FAbs(DSub(last.opponent_rating, Before.elo_rating)), FFromInt(4000))

\* C3, amended: for a K-factor from 1 to 1000, a rating within 10000 of zero
\* and an opponent within 4000 points, update_elo_rating with won true
\* leaves elo_rating strictly greater, with won false strictly smaller, and
\* the change differs from elo_k_factor * (actual - expected) by at most
\* 2^-38.
C3_MovesTowardsResult ==
    Did("update_elo_rating") /\ C3_Ordinary =>
        LET expected == calculate_win_probability(Before, last.opponent_rating)
            actual   == IF last.won THEN FOne ELSE FZero
        IN  /\ last.won => FLt(Before.elo_rating, Self.elo_rating)
            /\ ~last.won => FLt(Self.elo_rating, Before.elo_rating)
            /\ FWithin(DSub(Self.elo_rating, Before.elo_rating),
                       DMul(Before.elo_k_factor, DSub(actual, expected)),
                       FTwoTo(-38))

C3_Witness ==
    /\ Did("update_elo_rating")
    /\ C3_Ordinary
    /\ last.won
    /\ DSub(last.opponent_rating, Before.elo_rating) = FFromInt(-4000)
    /\ FLt(Before.elo_rating, Self.elo_rating)
    /\ DSub(Self.elo_rating, Before.elo_rating)
         # DMul(Before.elo_k_factor,
                DSub(FOne, calculate_win_probability(Before, last.opponent_rating)))

\* C4: calculate_win_probability against a rating equal to the card's own is
\* 0.5, and update_elo_rating(1500.0, won) on a card rated 1500.0 with
\* K-factor 32.0 leaves it at 1516.0 if won and at 1484.0 if not, whatever
\* was called before.
C4_EvenMatch ==
    /\ Did("calculate_win_probability") /\ last.opponent_rating = Before.elo_rating
         => DMul(last.result, FFromInt(2)) = FOne
    /\ ( /\ Did("update_elo_rating")
         /\ Before.elo_rating = FFromInt(DefaultElo)
         /\ Before.elo_k_factor = FFromInt(DefaultK)
         /\ last.opponent_rating = FFromInt(DefaultElo) )
         => Self.elo_rating = FFromInt(IF last.won THEN 1516 ELSE 1484)

C4_Witness ==
    /\ Did("update_elo_rating")
    /\ last.id = "B"
    /\ ~last.won
    /\ last.opponent_rating = FFromInt(1500)
    /\ last.pre["A"].elo_rating = FFromInt(1516)
    /\ cards["A"].elo_rating = FFromInt(1516)
    /\ cards["B"].elo_rating = FFromInt(1484)

\* C5: update_elo_rating changes only the card's elo_rating,
\* confidence_score and updated_at, and nothing of the opponent's card.
C5_UpdateEloRatingFrame ==
    Did("update_elo_rating") =>
        /\ Self = [Before EXCEPT !.elo_rating = Self.elo_rating,
                                 !.confidence_score = Self.confidence_score,
                                 !.updated_at = Self.updated_at]
        /\ cards[Opponent] = last.pre[Opponent]

C5_Witness ==
    /\ Did("update_elo_rating")
    /\ Before.total_interactions > 0
    /\ Before.last_interaction_at # None
    /\ last.opponent_rating = cards[Opponent].elo_rating
    /\ Self.elo_rating # Before.elo_rating
    /\ Self.confidence_score # Before.confidence_score

\* C6: update_interaction_counts(is_like) adds 1 to likes_count if is_like
\* and to dislikes_count if not, adds 1 to total_interactions, sets
\* last_interaction_at and updated_at to the time of the call, and leaves
\* every other field as it was; the card is never left as it was.
C6_UpdateInteractionCountsEffect ==
    Did("update_interaction_counts") =>
        /\ Self.likes_count = Before.likes_count + (IF last.is_like THEN 1 ELSE 0)
        /\ Self.dislikes_count = Before.dislikes_count + (IF last.is_like THEN 0 ELSE 1)
        /\ Self.total_interactions = Before.total_interactions + 1
        /\ Self.last_interaction_at = Some(last.at)
        /\ Self.updated_at \in last.at..now
        /\ Self = [Before EXCEPT !.likes_count = Self.likes_count,
                                 !.dislikes_count = Self.dislikes_count,
                                 !.total_interactions = Self.total_interactions,
                                 !.last_interaction_at = Self.last_interaction_at,
                                 !.updated_at = Self.updated_at]
        /\ Self # Before

C6_Witness ==
    /\ Did("update_interaction_counts")
    /\ ~last.is_like
    /\ Before.likes_count = 1
    /\ Before.confidence_score # FZero
    /\ Self.dislikes_count = 1

\* C7: get_ranking_score returns elo_rating * confidence_score and changes
\* no field; on a card no mutating method was called on it returns 0.0.
C7_RankingScore ==
    Did("get_ranking_score") =>
        /\ last.result = FMul(Before.elo_rating, Before.confidence_score)
        /\ cards = last.pre
        /\ hist[last.id].records + hist[last.id].updates = 0 => last.result = FZero

C7_Witness ==
    /\ Did("get_ranking_score")
    /\ last.result # FZero
    /\ cards[Opponent].elo_rating # FFromInt(DefaultElo)
    /\ hist[Opponent].records + hist[Opponent].updates = 0

\* C8: no call lowers total_interactions; last_interaction_at is None while
\* total_interactions is 0 and no update_interaction_counts call has
\* completed on the card, not None once one has, and no call sets it back to
\* None.
C8_InteractionsOnlyGrow ==
    \A c \in CardIds :
        /\ cards[c].total_interactions >= last.pre[c].total_interactions
        /\ cards[c].total_interactions = 0 => cards[c].last_interaction_at = None
        /\ hist[c].records = 0 <=> cards[c].last_interaction_at = None
        /\ last.pre[c].last_interaction_at # None => cards[c].last_interaction_at # None

C8_Witness ==
    /\ Did("update_elo_rating")
    /\ hist[last.id].records > 0
    /\ Before.last_interaction_at # None
    /\ Self.last_interaction_at # None
    /\ cards[Opponent].last_interaction_at = None

\* an update is lost: a counter is below the number of calls completed, or
\* a call stored its rating over one stored since it read the rating
LostCount ==
    \/ cards[Shared].total_interactions < hist[Shared].records
    \/ cards[Shared].likes_count < hist[Shared].likes
    \/ cards[Shared].dislikes_count < hist[Shared].records - hist[Shared].likes
LostRating == \E t \in ThreadIds : threads[t].stale
AllReturned == \A t \in ThreadIds : threads[t].pc = "done"

\* C9: when the calls on a card are serialized no update is lost; when they
\* are not, the two calls' reads and writes interleave and a state is
\* reached where all calls have returned and a counter is below the number
\* of calls.
C9_SerializedLosesNothing ==
    lim.serialize => ~LostCount /\ ~LostRating

C9_Witness ==
    /\ ~lim.serialize
    /\ AllReturned
    /\ hist[Shared].records = MaxThreads
    /\ cards[Shared].total_interactions < MaxThreads

\* C10 as stated: calculate_win_probability changes no field, the results of
\* the two cards against each other's rating add up to 1.0, and each is
\* strictly between 0 and 1.
C10_AsStated ==
    Did("calculate_win_probability") /\ last.opponent_rating = cards[Opponent].elo_rating =>
        LET other == calculate_win_probability(cards[Opponent], Self.elo_rating)
        IN  /\ cards = last.pre
            /\ FAdd(last.result, other) = FOne
            /\ FBetween(FZero, last.result, FOne)
            /\ FBetween(FZero, other, FOne)

\* C10, amended: calculate_win_probability changes no field; for two cards
\* rated within 6000 points of each other the results against each other's
\* rating add up to within 2^-50 of 1.0 and each is strictly between 0 and 1.
C10_Reciprocal ==
    Did("calculate_win_probability") =>
        /\ cards = last.pre
        /\ ( /\ last.opponent_rating = cards[Opponent].elo_rating
             /\ FLe(FAbs(DSub(last.opponent_rating, Self.elo_rating)), FFromInt(6000)) )
             => LET other == calculate_win_probability(cards[Opponent], Self.elo_rating)
                IN  /\ FWithin(FAdd(last.result, other), FOne, FTwoTo(-50))
                    /\ FBetween(FZero, last.result, FOne)
                    /\ FBetween(FZero, other, FOne)

C10_Witness ==
    /\ Did("calculate_win_probability")
    /\ last.opponent_rating = cards[Opponent].elo_rating
    /\ DSub(last.opponent_rating, Self.elo_rating) = FFromInt(6000)
    /\ FAdd(last.result, calculate_win_probability(cards[Opponent], Self.elo_rating)) # FOne
====
